---- MODULE Spec2Model ----
(***************************************************************************)
(* A model of the k8s_auto_dev_platform package: requirement normalisation *)
(* (templates/simple_service.py), project generation, the generated HTTP   *)
(* server, the test runner, the deployer and the pipeline orchestrator.    *)
(*                                                                         *)
(* Python values are records [t, n, s]: t is the Python type, n the number *)
(* of an int (or the identity of an opaque JSON object), s the characters  *)
(* of a str as a sequence of one-character strings.  A dict with optional  *)
(* keys is a function whose DOMAIN is the set of keys present.             *)
(***************************************************************************)
EXTENDS Integers, Sequences, FiniteSets, TLC

\* ------------------------------------------------------------------ bounds
\* Longest route list a requirements mapping of the validation model holds.
MaxRoutes == 2
\* Longest string handed to slugify in the slugify model.
MaxSlugInput == 3
\* Most get_template calls made on one TemplateManager.
MaxLookups == 2

\* ----------------------------------------------------------- Python values
PyStr(chars) == [t |-> "str", n |-> 0, s |-> chars]
PyInt(k) == [t |-> "int", n |-> k, s |-> <<>>]
PyNone == [t |-> "none", n |-> 0, s |-> <<>>]
\* An opaque JSON object: 0 is the empty dict {}, 1 is {"status": "ok"},
\* 2 is {"ok": true}, whose JSON text holds the literal true.
PyDict(k) == [t |-> "dict", n |-> k, s |-> <<>>]
\* {"message": text}
PyMessage(chars) == [t |-> "message", n |-> 0, s |-> chars]

\* Python truthiness, as used by `x or default` and `not x`.
Truthy(v) ==
    CASE v.t = "str" -> v.s /= <<>>
      [] v.t = "int" -> v.n /= 0
      [] v.t = "none" -> FALSE
      [] v.t = "dict" -> v.n /= 0
      [] OTHER -> TRUE

Digits == <<"0", "1", "2", "3", "4", "5", "6", "7", "8", "9">>
LowerLetters == <<"a", "b", "c", "d", "e", "f", "g", "h", "i", "j", "k", "l", "m",
                  "n", "o", "p", "q", "r", "s", "t", "u", "v", "w", "x", "y", "z">>
UpperLetters == <<"A", "B", "C", "D", "E", "F", "G", "H", "I", "J", "K", "L", "M",
                  "N", "O", "P", "Q", "R", "S", "T", "U", "V", "W", "X", "Y", "Z">>
Range(f) == {f[i] : i \in DOMAIN f}
IndexOf(seq, c) == CHOOSE i \in DOMAIN seq : seq[i] = c

\* str.lower() and str.upper(), character by character.
LowerChar(c) == IF c \in Range(UpperLetters) THEN LowerLetters[IndexOf(UpperLetters, c)] ELSE c
UpperChar(c) == IF c \in Range(LowerLetters) THEN UpperLetters[IndexOf(LowerLetters, c)] ELSE c
Lower(chars) == [i \in DOMAIN chars |-> LowerChar(chars[i])]
Upper(chars) == [i \in DOMAIN chars |-> UpperChar(chars[i])]

\* The decimal digits of a natural number: str(k) for an int k >= 0.
RECURSIVE IntToChars(_)
IntToChars(k) ==
    IF k < 10 THEN <<Digits[k + 1]>>
    ELSE Append(IntToChars(k \div 10), Digits[(k % 10) + 1])

\* int(s) for a str of decimal digits.
RECURSIVE CharsToInt(_)
CharsToInt(chars) ==
    IF chars = <<>> THEN 0
    ELSE 10 * CharsToInt(SubSeq(chars, 1, Len(chars) - 1))
         + (IndexOf(Digits, chars[Len(chars)]) - 1)

\* str(v)
Str(v) ==
    CASE v.t = "str" -> v.s
      [] v.t = "int" -> IntToChars(v.n)
      [] v.t = "none" -> <<"N", "o", "n", "e">>
      [] OTHER -> <<"{", "}">>

\* int(v): [ok, err, n]; a str that is no decimal number raises ValueError,
\* None and dicts raise TypeError.
IntOf(v) ==
    CASE v.t = "int" -> [ok |-> TRUE, err |-> "", n |-> v.n]
      [] v.t = "str" ->
           IF v.s /= <<>> /\ \A i \in DOMAIN v.s : v.s[i] \in Range(Digits)
           THEN [ok |-> TRUE, err |-> "", n |-> CharsToInt(v.s)]
           ELSE [ok |-> FALSE, err |-> "ValueError", n |-> 0]
      [] OTHER -> [ok |-> FALSE, err |-> "TypeError", n |-> 0]

\* dict.get(key, default)
Get(d, key, default) == IF key \in DOMAIN d THEN d[key] ELSE default

\* ------------------------------------------------------------------ slugify
Whitespace == {" "}
SlugChars == Range(LowerLetters) \cup Range(Digits)

RECURSIVE LStrip(_, _)
LStrip(chars, drop) ==
    IF chars /= <<>> /\ Head(chars) \in drop THEN LStrip(Tail(chars), drop) ELSE chars

RECURSIVE RStrip(_, _)
RStrip(chars, drop) ==
    IF chars /= <<>> /\ chars[Len(chars)] \in drop
    THEN RStrip(SubSeq(chars, 1, Len(chars) - 1), drop)
    ELSE chars

\* A strip that trims the left end only.
StripLeftOnly(chars, drop) == LStrip(chars, drop)

\* str.strip(): both ends.
Strip(chars, drop) == RStrip(LStrip(chars, drop), drop)

\* _SLUGIFY_PATTERN.sub("-", s): every maximal run of characters outside
\* [a-z0-9] becomes one "-".
RECURSIVE SubNonSlug(_)
SubNonSlug(chars) ==
    IF chars = <<>> THEN <<>>
    ELSE IF Head(chars) \in SlugChars THEN <<Head(chars)>> \o SubNonSlug(Tail(chars))
    ELSE <<"-">> \o SubNonSlug(LStrip(chars, {c \in Range(chars) : c \notin SlugChars}))

ProjectSlug == <<"p", "r", "o", "j", "e", "c", "t">>

slugify(value) ==
    LET normalized == Strip(SubNonSlug(Lower(Strip(value, Whitespace))), {"-"})
    IN  IF normalized /= <<>> THEN normalized ELSE ProjectSlug

\* ------------------------------------------------- results of a call
\* A call either returns a value or raises: err names the exception class,
\* msg holds the parts of its message, each a string of characters.
Text(word) == <<word>>
Returned(value) == [ok |-> TRUE, err |-> "", msg |-> <<>>, val |-> value]
Raised(exception, message) == [ok |-> FALSE, err |-> exception, msg |-> message, val |-> <<>>]

\* --------------------------------------------------- validate_requirements
Chars(word) ==
    CASE word = "GET" -> <<"G", "E", "T">>
      [] word = "POST" -> <<"P", "O", "S", "T">>
      [] word = "PUT" -> <<"P", "U", "T">>
      [] word = "DELETE" -> <<"D", "E", "L", "E", "T", "E">>
      [] word = "PATCH" -> <<"P", "A", "T", "C", "H">>
      [] word = "root" -> <<"r", "o", "o", "t">>
      [] word = "route_" -> <<"r", "o", "u", "t", "e", "_">>
      [] OTHER -> <<word>>

\* An allowed set that also lets PATCH through.
AllowedMethodsWithPatch ==
    {Chars("GET"), Chars("POST"), Chars("PUT"), Chars("DELETE"), Chars("PATCH")}

\* _ALLOWED_METHODS, and sorted(_ALLOWED_METHODS) as the error message joins it.
AllowedMethods == {Chars("GET"), Chars("POST"), Chars("PUT"), Chars("DELETE")}
SortedAllowedMethods == <<Chars("DELETE"), Chars("GET"), Chars("POST"), Chars("PUT")>>

\* A route entry of the raw list: a mapping (ismap, with its keys in f) or
\* some other value (a string, a number).
RouteEntry(f) == [ismap |-> TRUE, f |-> f]
NotAMapping == [ismap |-> FALSE, f |-> <<>>]

\* f"route_{index + 1}", position being index + 1.
DefaultRouteName(position) == Chars("route_") \o IntToChars(position)

\* str.replace("-", "_")
ReplaceDash(chars) == [i \in DOMAIN chars |-> IF chars[i] = "-" THEN "_" ELSE chars[i]]

\* A default route written by hand with the method in lower case, which the
\* loop over declared routes would store as "GET".
RootRouteLowerMethod(service_name) ==
    RouteEntry([name |-> PyStr(Chars("root")),
                identifier |-> PyStr(Chars("root")),
                method |-> PyStr(<<"g", "e", "t">>),
                path |-> PyStr(<<"/">>),
                status |-> PyInt(200),
                response |-> PyMessage(<<"Hello from ">> \o service_name \o <<"!">>)])

\* The default route of an empty or absent route list.
RootRoute(service_name) ==
    RouteEntry([name |-> PyStr(Chars("root")),
                identifier |-> PyStr(Chars("root")),
                method |-> PyStr(Chars("GET")),
                path |-> PyStr(<<"/">>),
                status |-> PyInt(200),
                response |-> PyMessage(<<"Hello from ">> \o service_name \o <<"!">>)])

\* The body of the loop over enumerate(routes), for the route at 1-based
\* position: the normalized route, or the exception the body raises.
NormalizeRoute(route, position) ==
    IF ~route.ismap
    THEN Raised("ValueError", <<Text("Each route must be described by a mapping/dictionary.")>>)
    ELSE
    LET f == route.f
        given == Get(f, "name", PyNone)
        name == Str(IF Truthy(given) THEN given ELSE PyStr(DefaultRouteName(position)))
        slugged == ReplaceDash(slugify(name))
        identifier == IF slugged /= <<>> THEN slugged ELSE DefaultRouteName(position)
        method == Upper(Str(Get(f, "method", PyStr(Chars("GET")))))
        path == Get(f, "path", PyNone)
        status == IntOf(Get(f, "status", PyInt(200)))
        declared == Get(f, "response", PyNone)
        response == IF Truthy(declared) THEN declared
                    ELSE PyMessage(<<"Response from ">> \o name)
    IN  IF method \notin AllowedMethods
        THEN Raised("ValueError",
                    <<Text("Unsupported HTTP method"), method, Text("Allowed")>>
                    \o SortedAllowedMethods)
        ELSE IF ~Truthy(path) \/ Head(Str(path)) /= "/"
        THEN Raised("ValueError", <<Text("Each route must define a path starting with '/'.")>>)
        ELSE IF ~status.ok
        THEN Raised(status.err, <<Text("int()")>>)
        ELSE Returned(RouteEntry([name |-> PyStr(name),
                                  identifier |-> PyStr(identifier),
                                  method |-> PyStr(method),
                                  path |-> PyStr(Str(path)),
                                  status |-> PyInt(status.n),
                                  response |-> response]))

\* The loop of lines 45-68: the normalized list, or the first exception in
\* list order.
NormalizeRoutes(routes) ==
    LET each == [i \in DOMAIN routes |-> NormalizeRoute(routes[i], i)]
        failing == {i \in DOMAIN routes : ~each[i].ok}
    IN  IF failing = {}
        THEN Returned([i \in DOMAIN routes |-> each[i].val])
        ELSE each[CHOOSE i \in failing : \A j \in failing : i <= j]

RequiredFields == <<"service_name", "description">>
NormalizedKeys == {"service_name", "description", "version", "container_image",
                   "slug", "routes", "port"}

\* BaseTemplate._ensure_fields
MissingFields(requirements, fields) ==
    SelectSeq(fields, LAMBDA field : field \notin DOMAIN requirements)

DefaultImage(slug, version) == <<"registry.example.com/">> \o slug \o <<":">> \o version

validate_requirements(requirements) ==
    IF MissingFields(requirements, RequiredFields) /= <<>>
    THEN Raised("ValueError",
                <<Text("Missing required fields")>>
                \o [i \in DOMAIN MissingFields(requirements, RequiredFields) |->
                      Text(MissingFields(requirements, RequiredFields)[i])])
    ELSE
    LET service_name == Str(requirements["service_name"])
        slug == slugify(service_name)
        version == Str(Get(requirements, "version", PyStr(<<"0", ".", "1", ".", "0">>)))
        image == Get(requirements, "container_image", PyNone)
        container_image == IF Truthy(image) THEN image
                           ELSE PyStr(DefaultImage(slug, version))
        routes == Get(requirements, "routes", <<>>)
        normalized_routes == IF routes = <<>>
                             THEN Returned(<<RootRoute(service_name)>>)
                             ELSE NormalizeRoutes(routes)
        port == IntOf(Get(requirements, "port", PyInt(8000)))
    IN  IF ~normalized_routes.ok THEN normalized_routes
        ELSE IF ~port.ok THEN Raised(port.err, <<Text("int()")>>)
        ELSE Returned(
          [key \in DOMAIN requirements \cup NormalizedKeys |->
             CASE key = "service_name" -> PyStr(service_name)
               [] key = "description" -> PyStr(Str(requirements["description"]))
               [] key = "version" -> PyStr(version)
               [] key = "container_image" -> PyStr(Str(container_image))
               [] key = "slug" -> PyStr(slug)
               [] key = "routes" -> normalized_routes.val
               [] key = "port" -> PyInt(port.n)
               [] OTHER -> requirements[key]])

\* ------------------------------------------- the generated routes module
\* _render_routes_module writes each route as json.dumps(payload) into the
\* Python source of app/routes.py, so importing the module evaluates JSON
\* text as a Python expression: numbers, strings, lists and dicts read back
\* as themselves, the JSON literals true, false and null are undefined names.
JsonTextIsPython(value) == ~(value.t = "dict" /\ value.n = 2)

\* app.routes as imported: ROUTES, or the NameError the import raises.
routes_module(spec) ==
    LET ROUTES == [i \in DOMAIN spec["routes"] |-> spec["routes"][i].f]
    IN  IF \A i \in DOMAIN ROUTES : JsonTextIsPython(ROUTES[i]["response"])
        THEN Returned(ROUTES)
        ELSE Raised("NameError", <<Text("true")>>)

RouteKey(route) == <<route["method"].s, route["path"].s>>

\* A route map that keeps the first route of each (method, path).
get_route_mapFirstWins(ROUTES, key) ==
    LET having == {i \in DOMAIN ROUTES : RouteKey(ROUTES[i]) = key}
    IN  IF having = {} THEN <<>>
        ELSE <<ROUTES[CHOOSE i \in having : \A j \in having : i <= j]>>

\* get_route_map(): a dict comprehension over ROUTES, so a later route
\* replaces an earlier one with the same (method, path).  The value is the
\* sequence holding the route kept for key, empty when no route has it.
get_route_map(ROUTES, key) ==
    LET having == {i \in DOMAIN ROUTES : RouteKey(ROUTES[i]) = key}
    IN  IF having = {} THEN <<>>
        ELSE <<ROUTES[CHOOSE i \in having : \A j \in having : j <= i]>>

\* urlparse(target).path: the target up to its query or fragment.
RECURSIVE UrlPath(_)
UrlPath(target) ==
    IF target = <<>> \/ Head(target) \in {"?", "#"} THEN <<>>
    ELSE <<Head(target)>> \o UrlPath(Tail(target))

\* The methods DynamicRequestHandler defines a do_ method for; the base
\* handler answers any other method with 501.
HandledMethods == {Chars("GET"), Chars("POST"), Chars("PUT"), Chars("DELETE")}

Reply(status, body) == [status |-> status, body |-> body]

\* DynamicRequestHandler._handle, behind the do_ dispatch.
_handle(ROUTES, method, target) ==
    IF method \notin HandledMethods THEN Reply(501, PyNone)
    ELSE LET route == get_route_map(ROUTES, <<method, UrlPath(target)>>)
         IN  IF route = <<>> THEN Reply(404, PyNone)
             ELSE Reply(route[1]["status"].n, route[1]["response"])

\* ------------------------------------------------------------- filesystem
\* A path is <<project, dir, file>>: project is the name of a project
\* directory under the output directory (a string of characters, empty for
\* the output directory itself), dir one of its subdirectories ("" for the
\* project directory), file a file name ("" for the directory).  The
\* filesystem maps each existing path to its content.
OutputDir == <<<<>>, "", "">>
DirContent == <<"dir">>
Parent(path) ==
    IF path[3] /= "" THEN <<path[1], path[2], "">>
    ELSE IF path[2] /= "" THEN <<path[1], "", "">>
    ELSE OutputDir

\* The directories above a path, up to the output directory.
Ancestors(path) == {Parent(path), Parent(Parent(path)), OutputDir}

\* Path.mkdir(parents=True, exist_ok=True)
Mkdir(files, path) ==
    LET made == ({path} \cup Ancestors(path)) \ DOMAIN files
    IN  [p \in DOMAIN files \cup made |-> IF p \in made THEN DirContent ELSE files[p]]

\* utils.write_text: create the parents, then write (replacing) the file.
write_text(files, path, content) ==
    LET made == Ancestors(path) \ DOMAIN files
    IN  [p \in DOMAIN files \cup made \cup {path} |->
           IF p = path THEN content
           ELSE IF p \in made THEN DirContent ELSE files[p]]

\* ------------------------------------------------------- generate_project
\* f"{slug}-service"
ProjectDirName(slug) == slug \o <<"-service">>

\* The files generate_project writes, in the order it writes them.
GeneratedFiles ==
    << <<"app", "__init__.py">>, <<"app", "routes.py">>, <<"app", "server.py">>,
       <<"tests", "__init__.py">>, <<"tests", "test_routes.py">>,
       <<"", "README.md">>, <<"", "Dockerfile">>,
       <<"k8s", "deployment.yaml">>, <<"k8s", "service.yaml">>,
       <<"", "project-metadata.json">> >>

\* A project directory that never counts as existing.
ProjectNeverExists(files, project) == FALSE

\* project_dir.exists()
ProjectExists(files, project) == <<project, "", "">> \in DOMAIN files

ProjectDirs(project) == {<<project, "app", "">>, <<project, "tests", "">>, <<project, "k8s", "">>}

\* app_dir.mkdir, tests_dir.mkdir, k8s_dir.mkdir (parents=True, exist_ok=True)
MakeProjectDirs(files, project) ==
    LET made == (ProjectDirs(project) \cup {<<project, "", "">>, OutputDir}) \ DOMAIN files
    IN  [p \in DOMAIN files \cup made |-> IF p \in made THEN DirContent ELSE files[p]]

GeneratedPath(project, k) == <<project, GeneratedFiles[k][1], GeneratedFiles[k][2]>>

\* The k-th file write of generate_project, by the call named writer.
WriteGenerated(files, project, k, writer) ==
    write_text(files, GeneratedPath(project, k), <<writer>>)

\* The first k file writes of generate_project, one after the other.
WriteGeneratedUpTo(files, project, k, writer) ==
    LET written == {GeneratedPath(project, i) : i \in 1..k}
        made == UNION {Ancestors(path) : path \in written} \ DOMAIN files
    IN  [p \in DOMAIN files \cup made \cup written |->
           IF p \in written THEN <<writer>>
           ELSE IF p \in made THEN DirContent ELSE files[p]]

\* generate_project run from start to end with nothing else touching the
\* filesystem: [ok, err, msg, val] with val = [files, project].
generate_project(files, spec, writer) ==
    LET checked == IF "slug" \in DOMAIN spec THEN Returned(spec)
                   ELSE validate_requirements(spec)
    IN  IF ~checked.ok THEN checked
        ELSE LET project == ProjectDirName(checked.val["slug"].s)
             IN  IF ProjectExists(files, project)
                 THEN Raised("FileExistsError",
                             <<Text("Target project directory already exists")>>)
                 ELSE Returned([files |-> WriteGeneratedUpTo(MakeProjectDirs(files, project),
                                                             project, Len(GeneratedFiles),
                                                             writer),
                                project |-> project])

\* -------------------------------------------------------- TemplateManager
SimplePythonService == "simple-python-service"
\* templates.TEMPLATE_REGISTRY: the registered names.
TEMPLATE_REGISTRY == {SimplePythonService}

\* A lookup that falls back to the default template for an unknown name.
get_templateOrDefault(registry, name) == Returned([name |-> SimplePythonService])

\* A second template class a registry can hold, and sorted() on names.
OtherTemplate == "other-template"
SortedTemplateNames == <<OtherTemplate, SimplePythonService>>
SortedNames(registry) == SelectSeq(SortedTemplateNames, LAMBDA name : name \in registry)

\* TemplateManager.get_template: a new instance of the class registered
\* under name (registry is the set of keys; a class is registered under its
\* own name), or KeyError with the sorted keys in its message.
get_template(registry, name) ==
    IF name \in registry THEN Returned([name |-> name])
    ELSE Raised("KeyError",
                <<Text("Unknown template"), Text(name), Text("Available")>>
                \o [i \in DOMAIN SortedNames(registry) |-> Text(SortedNames(registry)[i])])

\* TemplateManager.__init__: registry or dict(TEMPLATE_REGISTRY); the result
\* is the keys of self._registry in insertion order.  An empty dict is
\* falsy, so it too is replaced by the default.
TemplateManagerInit(registry) ==
    IF registry.given /\ registry.keys /= <<>> THEN registry.keys
    ELSE <<SimplePythonService>>

\* TemplateManager.list_templates: one TemplateInfo per item of
\* self._registry, in its order, each from a new instance.
list_templates(keys) == [i \in DOMAIN keys |-> [name |-> keys[i]]]

\* ------------------------------------------------------ external processes
\* What subprocess.run(..., check=False) can return: a zero exit, a non-zero
\* exit with or without text on stderr, death by a signal (negative code).
ProcessOutcomes ==
    { [returncode |-> 0, stdout |-> "OK", stderr |-> ""],
      [returncode |-> 1, stdout |-> "", stderr |-> "FAILED"],
      [returncode |-> 1, stdout |-> "", stderr |-> ""],
      [returncode |-> -11, stdout |-> "", stderr |-> ""] }

\* ------------------------------------------------------------- TestRunner
TestCommand == <<"python", "-m", "unittest", "discover">>

\* The TestResult built from a completed process.
TestResultOf(completed) ==
    [passed |-> completed.returncode = 0,
     command |-> TestCommand,
     output |-> <<completed.stdout, completed.stderr>>,
     return_code |-> completed.returncode]

\* ----------------------------------------------------- KubernetesDeployer
\* The *.yaml names a manifest directory can hold, in the order sorted()
\* puts them.
YamlNames == <<"deployment.yaml", "extra.yaml", "service.yaml">>
PlanFile == "deployment-plan.txt"

\* sorted(manifest_dir.glob("*.yaml"))
SortedManifests(files, project) ==
    SelectSeq(YamlNames, LAMBDA name : <<project, "k8s", name>> \in DOMAIN files)

\* [kubectl, "apply", "-f", manifest] and, for a namespace, "-n" namespace
ApplyCommand(manifest, ns) ==
    <<"kubectl", "apply", "-f", manifest>> \o (IF ns /= "" THEN <<"-n", ns>> ELSE <<>>)

DeploymentResult(applied, manifests, message, commands) ==
    [applied |-> applied, manifest_files |-> manifests, message |-> message,
     command_sequence |-> commands]

\* ------------------------------------------------------------ the inputs
PathA == <<"/", "a">>
PathB == <<"/", "b">>
PathWithQuery == <<"/", "a", "?", "q">>

\* Route entries as a requirements file can hold them: defaults taken, values
\* of other types (a status given as text, a number as name), lower-case
\* methods, the same (method, path) more than once, and the malformed ones.
RouteDomain ==
    { RouteEntry([path |-> PyStr(PathA)]),
      RouteEntry([name |-> PyStr(<<"n">>), method |-> PyStr(<<"g", "e", "t">>),
                  path |-> PyStr(PathA), status |-> PyInt(201), response |-> PyDict(1)]),
      RouteEntry([method |-> PyStr(Chars("POST")), path |-> PyStr(PathA),
                  status |-> PyStr(<<"4", "0", "4">>), response |-> PyDict(0)]),
      RouteEntry([name |-> PyStr(<<"!">>), path |-> PyStr(PathB)]),
      RouteEntry([name |-> PyStr(<<"A", " ", "b">>), method |-> PyStr(Chars("PUT")),
                  path |-> PyStr(PathB), response |-> PyDict(1)]),
      RouteEntry([name |-> PyInt(0), method |-> PyStr(Chars("DELETE")),
                  path |-> PyStr(PathB), status |-> PyInt(204)]),
      RouteEntry([path |-> PyStr(PathWithQuery)]),
      RouteEntry([path |-> PyStr(PathA), response |-> PyDict(2)]),
      RouteEntry([method |-> PyStr(Chars("PATCH")), path |-> PyStr(PathA)]),
      RouteEntry([path |-> PyStr(<<"a">>)]),
      RouteEntry([name |-> PyStr(<<"n">>)]),
      RouteEntry([path |-> PyStr(PathB), status |-> PyStr(<<"o", "k">>)]),
      RouteEntry([path |-> PyStr(PathB), status |-> PyNone]),
      NotAMapping }

RouteLists == UNION {[1..k -> RouteDomain] : k \in 0..MaxRoutes}

BaseRequirements == [service_name |-> PyStr(<<"A", "b">>), description |-> PyStr(<<"d">>)]

\* Top-level keys added to, or replacing those of, BaseRequirements.
TopLevelExtras ==
    { [version |-> PyStr(<<"2">>)],
      [version |-> PyInt(2)],
      [container_image |-> PyStr(<<"i", "m", "g">>)],
      [container_image |-> PyStr(<<>>)],
      [port |-> PyInt(9000)],
      [port |-> PyStr(<<"8", "0">>)],
      [port |-> PyStr(<<"x">>)],
      [port |-> PyNone],
      [slug |-> PyStr(<<"c">>)],
      [owner |-> PyStr(<<"m", "e">>)],
      [service_name |-> PyStr(<<"!">>)],
      [service_name |-> PyInt(7)],
      [service_name |-> PyStr(<<" ", "A", "-", "b", " ">>)],
      [description |-> PyInt(5)] }

RawRequirements ==
    {extra @@ BaseRequirements : extra \in TopLevelExtras}
    \cup {[service_name |-> PyStr(<<"A", "b">>)], [description |-> PyStr(<<"d">>)]}
    \cup {[routes |-> routes] @@ BaseRequirements : routes \in RouteLists}

RequestMethods == HandledMethods \cup {Chars("PATCH")}
RequestTargets == {PathA, PathB, PathWithQuery, <<"/">>, <<"/", "z">>}

\* ------------------------------------------------------------------ state
VARIABLES
    requirements,   \* the raw requirements mapping handed to validation
    vpc,            \* validation model: what has been done with it
    validated,      \* validate_requirements(requirements)
    revalidated,    \* validate_requirements applied to its own result
    server,         \* the generated app.routes module as the server imports it
    request,        \* the last request sent to the generated server
    reply,          \* and the answer to it
    \* run_pipeline's arguments
    template_name, run_tests, deploy, namespace,
    \* the host: whether the TestRunner's python executable exists; kubectl
    \* is "none" (no path given, none on PATH), "found", or "missing" (a
    \* path was given that names no executable)
    python_found, kubectl,
    pc,             \* where run_pipeline (or deploy) is
    fs,             \* the filesystem
    fs0,            \* the filesystem when the call began
    calls,          \* the components invoked so far, in order
    template, validated_requirements, project_path, test_result,
    deployment_result,   \* run_pipeline's locals; <<>> is None / unset
    result,         \* the PipelineResult returned, <<>> before
    results_built,  \* how many PipelineResult objects were constructed
    error,          \* the exception that ended the call, "" if none
    manifest_files, executed_commands,   \* deploy's locals
    kubectl_log,    \* every command the host ran for deploy, with its exit code
    generators,     \* the generate_project calls in progress, by caller
    value,          \* slugify model: the string given to slugify
    spc,            \* and how far the model is
    slug,           \* slugify(value)
    slug_again,     \* slugify(slugify(value))
    registry,       \* manager model: the registry argument of TemplateManager
    mpc,            \* how far the model is
    manager,        \* self._registry: its keys in insertion order
    lookups,        \* the get_template calls made, with their results
    instances,      \* how many template objects have been constructed
    listed          \* what list_templates yielded, <<>> before

valVars == <<requirements, vpc, validated, revalidated, server, request, reply>>
argVars == <<template_name, run_tests, deploy, namespace, python_found, kubectl, fs0>>
runVars == <<template, validated_requirements, project_path, test_result,
             deployment_result, result, results_built>>
deployVars == <<manifest_files, executed_commands, kubectl_log>>
slugVars == <<value, spc, slug, slug_again>>
managerVars == <<registry, mpc, manager, lookups, instances, listed>>
vars == <<valVars, argVars, runVars, deployVars, pc, fs, calls, error, generators, slugVars, managerVars>>

NotCalled == Raised("NotCalled", <<>>)
NoGenerators == <<>>
NoReply == Reply(0, PyNone)

\* The pipeline's variables in the models that do not run it.
PipelineIdle ==
    /\ template_name = SimplePythonService
    /\ run_tests = FALSE
    /\ deploy = FALSE
    /\ namespace = ""
    /\ python_found = TRUE
    /\ kubectl = "none"
    /\ pc = "idle"
    /\ fs = <<>>
    /\ fs0 = <<>>
    /\ calls = <<>>
    /\ template = <<>>
    /\ validated_requirements = <<>>
    /\ project_path = <<>>
    /\ test_result = <<>>
    /\ deployment_result = <<>>
    /\ result = <<>>
    /\ results_built = 0
    /\ error = ""
    /\ manifest_files = <<>>
    /\ executed_commands = <<>>
    /\ kubectl_log = <<>>
    /\ generators = NoGenerators

\* No registry argument (None).
NoRegistry == [given |-> FALSE, keys |-> <<>>]

\* The manager model's variables in the other models.
ManagerIdle ==
    /\ registry = NoRegistry
    /\ mpc = "idle"
    /\ manager = <<>>
    /\ lookups = <<>>
    /\ instances = 0
    /\ listed = <<>>

\* The slugify model's variables in the other models.
SlugifyIdle ==
    /\ value = <<>>
    /\ spc = "idle"
    /\ slug = <<>>
    /\ slug_again = <<>>

\* The validation model's variables in the models that do not use them.
ValidationIdle ==
    /\ vpc = "idle"
    /\ validated = NotCalled
    /\ revalidated = NotCalled
    /\ server = NotCalled
    /\ request = <<>>
    /\ reply = NoReply

pipelineVars == <<argVars, runVars, deployVars, pc, fs, calls, error, generators, slugVars, managerVars>>

\* ------------------------------------------------ the validation model
InitValidate ==
    /\ requirements \in RawRequirements
    /\ vpc = "input"
    /\ validated = NotCalled
    /\ revalidated = NotCalled
    /\ server = NotCalled
    /\ request = <<>>
    /\ reply = NoReply
    /\ PipelineIdle
    /\ SlugifyIdle
    /\ ManagerIdle

\* template.validate_requirements(requirements)
Validate ==
    /\ vpc = "input"
    /\ validated' = validate_requirements(requirements)
    /\ vpc' = IF validated'.ok THEN "validated" ELSE "rejected"
    /\ UNCHANGED <<requirements, revalidated, server, request, reply, pipelineVars>>

\* validate_requirements called again on the mapping it returned
Revalidate ==
    /\ vpc = "validated"
    /\ revalidated' = validate_requirements(validated.val)
    /\ vpc' = "revalidated"
    /\ UNCHANGED <<requirements, validated, server, request, reply, pipelineVars>>

\* The project is generated from the validated mapping and its server is
\* started: app/server.py imports app/routes.py.
StartServer ==
    /\ vpc = "validated"
    /\ server' = routes_module(validated.val)
    /\ vpc' = IF server'.ok THEN "serving" ELSE "import_failed"
    /\ UNCHANGED <<requirements, validated, revalidated, request, reply, pipelineVars>>

\* One HTTP request to the running server.
HandleRequest ==
    /\ vpc = "serving"
    /\ \E method \in RequestMethods, target \in RequestTargets :
         /\ request' = <<method, target>>
         /\ reply' = _handle(server.val, method, target)
    /\ UNCHANGED <<requirements, vpc, validated, revalidated, server, pipelineVars>>

NextValidate == Validate \/ Revalidate \/ StartServer \/ HandleRequest

SpecValidate == InitValidate /\ [][NextValidate]_vars

\* ------------------------------------------------------- the pipeline model
\* Requirements a pipeline run is given: accepted ones (with the default
\* route, with declared routes, with a slug of "project"), one that lacks a
\* required field and one with a malformed route.
PipelineRequirements ==
    { BaseRequirements,
      [routes |-> <<RouteEntry([name |-> PyStr(<<"n">>), method |-> PyStr(<<"g", "e", "t">>),
                                path |-> PyStr(PathA), status |-> PyInt(201),
                                response |-> PyDict(1)])>>] @@ BaseRequirements,
      [service_name |-> PyStr(<<"!">>)] @@ BaseRequirements,
      [service_name |-> PyStr(<<"A", "b">>)],
      [routes |-> <<RouteEntry([path |-> PyStr(<<"a">>)])>>] @@ BaseRequirements }

OldProject == ProjectDirName(<<"a", "b">>)

\* The filesystem before the call: no output directory, an empty one, or one
\* that already holds the project directory "ab-service" of an earlier run.
InitialFilesystems ==
    { <<>>,
      OutputDir :> DirContent,
      write_text(<<>>, <<OldProject, "k8s", "extra.yaml">>, <<"old">>) }

Init ==
    /\ requirements \in PipelineRequirements
    /\ template_name \in {SimplePythonService, "unknown"}
    /\ run_tests \in BOOLEAN
    /\ deploy \in BOOLEAN
    /\ namespace \in {"", "prod"}
    /\ python_found \in BOOLEAN
    /\ kubectl \in {"none", "found", "missing"}
    /\ fs0 \in InitialFilesystems
    /\ fs = fs0
    /\ pc = "start"
    /\ calls = <<>>
    /\ template = <<>>
    /\ validated_requirements = <<>>
    /\ project_path = <<>>
    /\ test_result = <<>>
    /\ deployment_result = <<>>
    /\ result = <<>>
    /\ results_built = 0
    /\ error = ""
    /\ manifest_files = <<>>
    /\ executed_commands = <<>>
    /\ kubectl_log = <<>>
    /\ generators = NoGenerators
    /\ ValidationIdle
    /\ SlugifyIdle
    /\ ManagerIdle

\* An output directory emptied before use instead of kept.
EnsureOutputDirEmptied ==
    /\ pc = "start"
    /\ fs' = (OutputDir :> DirContent)
    /\ pc' = "resolve"
    /\ UNCHANGED <<valVars, slugVars, managerVars, generators, argVars, runVars, deployVars, calls, error>>

\* output_path.mkdir(parents=True, exist_ok=True)
EnsureOutputDir ==
    /\ pc = "start"
    /\ fs' = Mkdir(fs, OutputDir)
    /\ pc' = "resolve"
    /\ UNCHANGED <<valVars, slugVars, managerVars, generators, argVars, runVars, deployVars, calls, error>>

\* template = self.template_manager.get_template(template_name)
GetTemplate ==
    /\ pc = "resolve"
    /\ calls' = Append(calls, "get_template")
    /\ \E got \in {get_template(TEMPLATE_REGISTRY, template_name)} :
           IF got.ok
           THEN /\ template' = <<got.val>>
                /\ pc' = "validate"
                /\ error' = error
           ELSE /\ template' = template
                /\ pc' = "raised"
                /\ error' = got.err
    /\ UNCHANGED <<valVars, slugVars, managerVars, generators, argVars, deployVars, fs, validated_requirements,
                   project_path, test_result, deployment_result, result, results_built>>

\* validated_requirements = template.validate_requirements(requirements)
ValidateRequirements ==
    /\ pc = "validate"
    /\ calls' = Append(calls, "validate_requirements")
    /\ \E checked \in {validate_requirements(requirements)} :
           IF checked.ok
           THEN /\ validated_requirements' = <<checked.val>>
                /\ pc' = "generate"
                /\ error' = error
           ELSE /\ validated_requirements' = validated_requirements
                /\ pc' = "raised"
                /\ error' = checked.err
    /\ UNCHANGED <<valVars, slugVars, managerVars, generators, argVars, deployVars, fs, template, project_path,
                   test_result, deployment_result, result, results_built>>

\* project_path = template.generate_project(validated_requirements, output_path)
GenerateProject ==
    /\ pc = "generate"
    /\ calls' = Append(calls, "generate_project")
    /\ \E made \in {generate_project(fs, validated_requirements[1], "pipeline")} :
           IF made.ok
           THEN /\ fs' = made.val.files
                /\ project_path' = <<made.val.project>>
                /\ pc' = "test"
                /\ error' = error
           ELSE /\ fs' = fs
                /\ project_path' = project_path
                /\ pc' = "raised"
                /\ error' = made.err
    /\ UNCHANGED <<valVars, slugVars, managerVars, generators, argVars, deployVars, template, validated_requirements,
                   test_result, deployment_result, result, results_built>>

\* if run_tests: test_result = self.test_runner.run(project_path)
\* TestRunner.run starts the interpreter with subprocess.run, which raises
\* FileNotFoundError when the executable does not exist.
RunTests ==
    /\ pc = "test"
    /\ IF ~run_tests
       THEN /\ pc' = "gate"
            /\ UNCHANGED <<calls, test_result, error>>
       ELSE /\ calls' = Append(calls, "run")
            /\ IF ~python_found
               THEN /\ pc' = "raised"
                    /\ error' = "FileNotFoundError"
                    /\ test_result' = test_result
               ELSE /\ \E completed \in ProcessOutcomes :
                         test_result' = <<TestResultOf(completed)>>
                    /\ pc' = "gate"
                    /\ error' = error
    /\ UNCHANGED <<valVars, slugVars, managerVars, generators, argVars, deployVars, fs, template, validated_requirements,
                   project_path, deployment_result, result, results_built>>

\* A gate that looks at the deploy flag alone.
should_deployIgnoringTests == deploy

\* should_deploy = deploy and (test_result is None or test_result.passed)
should_deploy == deploy /\ (test_result = <<>> \/ test_result[1].passed)

\* if should_deploy: deployment_result = self.deployer.deploy(...): the call
\* is made here, the deployer's steps follow.
DeployGate ==
    /\ pc = "gate"
    /\ IF should_deploy
       THEN /\ calls' = Append(calls, "deploy")
            /\ pc' = "deploy"
       ELSE /\ calls' = calls
            /\ pc' = "return"
    /\ UNCHANGED <<valVars, slugVars, managerVars, generators, argVars, runVars, deployVars, fs, error>>

\* A deploy that looks for kubectl before it looks for manifests, and so
\* writes its plan file even when there is nothing to apply.
DeployDiscoverPlanFirst ==
    /\ pc = "deploy"
    /\ LET project == project_path[1]
           found == SortedManifests(fs, project)
       IN  /\ manifest_files' = found
           /\ IF kubectl = "none"
              THEN /\ fs' = (<<project, "k8s", PlanFile>> :> (<<"plan">> \o found)) @@ fs
                   /\ deployment_result' =
                        <<DeploymentResult(FALSE, found,
                                           <<"kubectl not available. Plan written to", PlanFile>>,
                                           <<>>)>>
                   /\ pc' = "deployed"
              ELSE IF found = <<>>
              THEN /\ deployment_result' =
                        <<DeploymentResult(FALSE, found,
                                           <<"No Kubernetes manifests found.">>, <<>>)>>
                   /\ pc' = "deployed"
                   /\ fs' = fs
              ELSE /\ pc' = "apply"
                   /\ fs' = fs
                   /\ deployment_result' = deployment_result
    /\ executed_commands' = <<>>
    /\ UNCHANGED <<valVars, slugVars, managerVars, generators, argVars, calls, error, kubectl_log, template,
                   validated_requirements, project_path, test_result, result,
                   results_built>>

\* KubernetesDeployer.deploy up to its loop: find the manifests; return at
\* once when there are none, write the plan file and return when no kubectl
\* is known.
DeployDiscover ==
    /\ pc = "deploy"
    /\ LET project == project_path[1]
           found == SortedManifests(fs, project)
       IN  /\ manifest_files' = found
           /\ IF found = <<>>
              THEN /\ deployment_result' =
                        <<DeploymentResult(FALSE, found,
                                           <<"No Kubernetes manifests found.">>, <<>>)>>
                   /\ pc' = "deployed"
                   /\ fs' = fs
              ELSE IF kubectl = "none"
              THEN /\ fs' = (<<project, "k8s", PlanFile>> :> (<<"plan">> \o found)) @@ fs
                   /\ deployment_result' =
                        <<DeploymentResult(FALSE, found,
                                           <<"kubectl not available. Plan written to", PlanFile>>,
                                           <<>>)>>
                   /\ pc' = "deployed"
              ELSE /\ pc' = "apply"
                   /\ fs' = fs
                   /\ deployment_result' = deployment_result
    /\ executed_commands' = <<>>
    /\ UNCHANGED <<valVars, slugVars, managerVars, generators, argVars, calls, error, kubectl_log, template,
                   validated_requirements, project_path, test_result, result,
                   results_built>>

\* A loop that notes a failed apply and goes on to the next manifest.
ApplyManifestKeepGoing ==
    /\ pc = "apply"
    /\ LET manifest == manifest_files[Len(executed_commands) + 1]
           command == ApplyCommand(manifest, namespace)
       IN  \E completed \in ProcessOutcomes :
                /\ kubectl_log' = Append(kubectl_log, [command |-> command,
                                                       returncode |-> completed.returncode])
                /\ executed_commands' = Append(executed_commands, command)
                /\ error' = error
                /\ IF Len(executed_commands') = Len(manifest_files)
                   THEN /\ deployment_result' =
                             <<DeploymentResult(\A i \in DOMAIN kubectl_log' :
                                                   kubectl_log'[i].returncode = 0,
                                                manifest_files,
                                                <<"Applied Kubernetes manifests successfully.">>,
                                                executed_commands')>>
                        /\ pc' = "deployed"
                   ELSE /\ deployment_result' = deployment_result
                        /\ pc' = "apply"
    /\ UNCHANGED <<valVars, slugVars, managerVars, generators, argVars, calls, fs, manifest_files, template,
                   validated_requirements, project_path, test_result, result,
                   results_built>>

\* One turn of the loop over manifest_files: run kubectl apply for the next
\* manifest, record the command, return on a non-zero exit or after the last.
ApplyManifest ==
    /\ pc = "apply"
    /\ LET manifest == manifest_files[Len(executed_commands) + 1]
           command == ApplyCommand(manifest, namespace)
       IN  IF kubectl = "missing"
           THEN /\ pc' = "raised"
                /\ error' = "FileNotFoundError"
                /\ UNCHANGED <<executed_commands, kubectl_log, deployment_result>>
           ELSE \E completed \in ProcessOutcomes :
                /\ kubectl_log' = Append(kubectl_log, [command |-> command,
                                                       returncode |-> completed.returncode])
                /\ executed_commands' = Append(executed_commands, command)
                /\ error' = error
                /\ IF completed.returncode /= 0
                   THEN /\ deployment_result' =
                             <<DeploymentResult(FALSE, manifest_files,
                                                <<"kubectl failed for", manifest>>,
                                                executed_commands')>>
                        /\ pc' = "deployed"
                   ELSE IF Len(executed_commands') = Len(manifest_files)
                   THEN /\ deployment_result' =
                             <<DeploymentResult(TRUE, manifest_files,
                                                <<"Applied Kubernetes manifests successfully.">>,
                                                executed_commands')>>
                        /\ pc' = "deployed"
                   ELSE /\ deployment_result' = deployment_result
                        /\ pc' = "apply"
    /\ UNCHANGED <<valVars, slugVars, managerVars, generators, argVars, calls, fs, manifest_files, template,
                   validated_requirements, project_path, test_result, result,
                   results_built>>

\* return PipelineResult(...)
ReturnResult ==
    /\ pc \in {"return", "deployed"}
    /\ result' = <<[project_path |-> project_path[1],
                    template_name |-> template[1].name,
                    requirements |-> validated_requirements[1],
                    test_result |-> test_result,
                    deployment_result |-> deployment_result]>>
    /\ results_built' = results_built + 1
    /\ pc' = "returned"
    /\ UNCHANGED <<valVars, slugVars, managerVars, generators, argVars, deployVars, fs, calls, error, template,
                   validated_requirements, project_path, test_result, deployment_result>>

Next ==
    \/ EnsureOutputDir
    \/ GetTemplate
    \/ ValidateRequirements
    \/ GenerateProject
    \/ RunTests
    \/ DeployGate
    \/ DeployDiscover
    \/ ApplyManifest
    \/ ReturnResult

Spec == Init /\ [][Next]_vars

\* ------------------------------------------------------- the slugify model
\* The characters of the strings given to slugify: a lower-case and an
\* upper-case letter, a digit, the dash, white space and a symbol.
SlugAlphabet == {"a", "Z", "0", "-", " ", "!"}
SlugInputs == UNION {[1..k -> SlugAlphabet] : k \in 0..MaxSlugInput}

InitSlugify ==
    /\ value \in SlugInputs
    /\ spc = "input"
    /\ slug = <<>>
    /\ slug_again = <<>>
    /\ requirements = BaseRequirements
    /\ ValidationIdle
    /\ PipelineIdle
    /\ ManagerIdle

\* slugify(value)
Slugify ==
    /\ spc = "input"
    /\ slug' = slugify(value)
    /\ spc' = "slugged"
    /\ UNCHANGED <<value, slug_again, valVars, argVars, runVars, deployVars, pc, fs,
                   calls, error, generators, managerVars>>

\* slugify applied to its own result
SlugifyAgain ==
    /\ spc = "slugged"
    /\ slug_again' = slugify(slug)
    /\ spc' = "reslugged"
    /\ UNCHANGED <<value, slug, valVars, argVars, runVars, deployVars, pc, fs,
                   calls, error, generators, managerVars>>

NextSlugify == Slugify \/ SlugifyAgain

SpecSlugify == InitSlugify /\ [][NextSlugify]_vars

\* --------------------------------------------------------- slugify claims
\* C13: for every string, its slug is non-empty, lower-case, made of
\* characters of [a-z0-9-] only, neither starts nor ends with "-", is its
\* own slug, and is "project" when the lower-cased string holds no character
\* of [a-z0-9].
C13_SlugShape ==
    /\ spc \in {"slugged", "reslugged"} =>
         /\ slug /= <<>>
         /\ Lower(slug) = slug
         /\ \A i \in DOMAIN slug :
              slug[i] \in Range(LowerLetters) \cup Range(Digits) \cup {"-"}
         /\ slug[1] /= "-"
         /\ slug[Len(slug)] /= "-"
         /\ (\A i \in DOMAIN value :
               Lower(value)[i] \notin Range(LowerLetters) \cup Range(Digits)) =>
              slug = <<"p", "r", "o", "j", "e", "c", "t">>
    /\ spc = "reslugged" => slug_again = slug

\* The slug of a string that starts and ends with symbols around a letter,
\* slugged a second time.
C13_Witness ==
    /\ spc = "reslugged"
    /\ value = <<"!", "Z", "-">>
    /\ slug = <<"z">>

\* ----------------------------------------------- the TemplateManager model
\* The registry arguments: None, an empty dict, and dicts of one or two
\* templates in either insertion order.
Registries ==
    { NoRegistry,
      [given |-> TRUE, keys |-> <<>>],
      [given |-> TRUE, keys |-> <<SimplePythonService>>],
      [given |-> TRUE, keys |-> <<OtherTemplate>>],
      [given |-> TRUE, keys |-> <<SimplePythonService, OtherTemplate>>],
      [given |-> TRUE, keys |-> <<OtherTemplate, SimplePythonService>>] }

TemplateNames == {SimplePythonService, OtherTemplate, "unknown"}

InitManager ==
    /\ registry \in Registries
    /\ mpc = "new"
    /\ manager = <<>>
    /\ lookups = <<>>
    /\ instances = 0
    /\ listed = <<>>
    /\ requirements = BaseRequirements
    /\ ValidationIdle
    /\ PipelineIdle
    /\ SlugifyIdle

managerFrame == <<valVars, slugVars, argVars, runVars, deployVars, pc, fs, calls, error,
                  generators>>

\* TemplateManager(registry)
ConstructManager ==
    /\ mpc = "new"
    /\ manager' = TemplateManagerInit(registry)
    /\ mpc' = "ready"
    /\ UNCHANGED <<registry, lookups, instances, listed, managerFrame>>

\* manager.get_template(name)
LookupTemplate ==
    /\ mpc = "ready"
    /\ Len(lookups) < MaxLookups
    /\ \E name \in TemplateNames :
         \E got \in {get_template(Range(manager), name)} :
            /\ instances' = IF got.ok THEN instances + 1 ELSE instances
            /\ lookups' = Append(lookups, [name |-> name, result |-> got,
                                           instance |-> IF got.ok THEN instances' ELSE 0])
    /\ UNCHANGED <<registry, mpc, manager, listed, managerFrame>>

\* list(manager.list_templates())
ListTemplates ==
    /\ mpc = "ready"
    /\ listed = <<>>
    /\ listed' = <<list_templates(manager)>>
    /\ instances' = instances + Len(manager)
    /\ UNCHANGED <<registry, mpc, manager, lookups, managerFrame>>

NextManager == ConstructManager \/ LookupTemplate \/ ListTemplates

SpecManager == InitManager /\ [][NextManager]_vars

\* ------------------------------------------------- TemplateManager claims
\* The registry the manager was constructed with: the one given, the
\* default one when none was given.
ConstructedWith == IF registry.given THEN registry.keys ELSE <<SimplePythonService>>

\* C14: for the registry a TemplateManager is constructed with, an empty one
\* included, get_template(name) returns a new instance on each call when
\* name is a key of that registry and raises KeyError naming the available
\* keys when it is not; list_templates yields one entry per registered
\* template in registration order.
C14_LookupFollowsRegistry ==
    /\ \A i \in DOMAIN lookups :
         /\ lookups[i].result.ok <=> lookups[i].name \in Range(ConstructedWith)
         /\ lookups[i].result.ok =>
              /\ lookups[i].result.val.name = lookups[i].name
              /\ \A j \in DOMAIN lookups :
                   (j /= i /\ lookups[j].result.ok) => lookups[j].instance /= lookups[i].instance
         /\ ~lookups[i].result.ok =>
              /\ lookups[i].result.err = "KeyError"
              /\ \A key \in Range(ConstructedWith) :
                   \E k \in DOMAIN lookups[i].result.msg : lookups[i].result.msg[k] = Text(key)
              /\ Len(lookups[i].result.msg) = 3 + Len(ConstructedWith)
    /\ listed /= <<>> =>
         /\ Len(listed[1]) = Len(ConstructedWith)
         /\ \A k \in DOMAIN ConstructedWith : listed[1][k].name = ConstructedWith[k]

\* --------------------------------------------------- the generation model
\* Two callers each call generate_project once on the same destination;
\* their calls may follow one another or interleave.  Each filesystem
\* operation of a call is one step.
Callers == {"first", "second"}

\* What the callers pass: mappings validate_requirements returned (slugs
\* "ab" and "project") and a raw mapping, which has no slug yet.
GenerateRequirements ==
    { validate_requirements(BaseRequirements).val,
      validate_requirements([service_name |-> PyStr(<<"!">>)] @@ BaseRequirements).val,
      BaseRequirements }

NotStarted(spec) ==
    [pc |-> "call", requirements |-> spec, project |-> <<>>, written |-> 0,
     existed |-> FALSE, touched |-> {}, after |-> {}, error |-> ""]

Finished(caller) == generators[caller].pc \in {"returned", "raised"}

InitGenerate ==
    /\ \E first, second \in GenerateRequirements :
         generators = [caller \in Callers |->
                         NotStarted(IF caller = "first" THEN first ELSE second)]
    /\ fs0 \in {OutputDir :> DirContent,
                write_text(<<>>, <<OldProject, "k8s", "extra.yaml">>, <<"old">>)}
    /\ fs = fs0
    /\ requirements = BaseRequirements
    /\ template_name = SimplePythonService
    /\ run_tests = FALSE
    /\ deploy = FALSE
    /\ namespace = ""
    /\ python_found = TRUE
    /\ kubectl = "none"
    /\ pc = "generating"
    /\ calls = <<>>
    /\ template = <<>>
    /\ validated_requirements = <<>>
    /\ project_path = <<>>
    /\ test_result = <<>>
    /\ deployment_result = <<>>
    /\ result = <<>>
    /\ results_built = 0
    /\ error = ""
    /\ manifest_files = <<>>
    /\ executed_commands = <<>>
    /\ kubectl_log = <<>>
    /\ ValidationIdle
    /\ SlugifyIdle
    /\ ManagerIdle

generateFrame == <<valVars, slugVars, managerVars, argVars, runVars, deployVars, pc, calls, error>>

\* if "slug" not in requirements: requirements = self.validate_requirements(...)
\* slug = requirements["slug"]; project_dir = destination / f"{slug}-service"
GenerateBegin(caller) ==
    /\ generators[caller].pc = "call"
    /\ \E checked \in {IF "slug" \in DOMAIN generators[caller].requirements
                       THEN Returned(generators[caller].requirements)
                       ELSE validate_requirements(generators[caller].requirements)} :
         generators' =
           [generators EXCEPT ![caller] =
              IF checked.ok
              THEN [@ EXCEPT !.pc = "exists", !.requirements = checked.val,
                             !.project = ProjectDirName(checked.val["slug"].s),
                             !.after = {other \in Callers : Finished(other)}]
              ELSE [@ EXCEPT !.pc = "raised", !.error = checked.err]]
    /\ UNCHANGED <<fs, generateFrame>>

\* if project_dir.exists(): raise FileExistsError(...)
GenerateCheckExists(caller) ==
    /\ generators[caller].pc = "exists"
    /\ generators' =
         [generators EXCEPT ![caller] =
            IF ProjectExists(fs, generators[caller].project)
            THEN [@ EXCEPT !.pc = "raised", !.error = "FileExistsError",
                           !.existed = <<generators[caller].project, "", "">> \in DOMAIN fs]
            ELSE [@ EXCEPT !.pc = "mkdir",
                           !.existed = <<generators[caller].project, "", "">> \in DOMAIN fs]]
    /\ UNCHANGED <<fs, generateFrame>>

\* Directory creation that refuses a project directory somebody else has
\* created since the check.
GenerateMakeDirsExclusive(caller) ==
    /\ generators[caller].pc = "mkdir"
    /\ IF <<generators[caller].project, "", "">> \in DOMAIN fs
       THEN /\ fs' = fs
            /\ generators' = [generators EXCEPT ![caller] =
                                [@ EXCEPT !.pc = "raised", !.error = "FileExistsError"]]
       ELSE /\ fs' = MakeProjectDirs(fs, generators[caller].project)
            /\ generators' =
                 [generators EXCEPT ![caller] =
                    [@ EXCEPT !.pc = "write",
                              !.touched = @ \cup (DOMAIN fs' \ DOMAIN fs)]]
    /\ UNCHANGED generateFrame

\* app_dir.mkdir(...); tests_dir.mkdir(...); k8s_dir.mkdir(...)
GenerateMakeDirs(caller) ==
    /\ generators[caller].pc = "mkdir"
    /\ fs' = MakeProjectDirs(fs, generators[caller].project)
    /\ generators' =
         [generators EXCEPT ![caller] =
            [@ EXCEPT !.pc = "write",
                      !.touched = @ \cup (DOMAIN fs' \ DOMAIN fs)]]
    /\ UNCHANGED generateFrame

\* The next write_text / write_json of the call; after the last one,
\* return project_dir.
GenerateWrite(caller) ==
    /\ generators[caller].pc = "write"
    /\ LET k == generators[caller].written + 1
       IN  /\ fs' = WriteGenerated(fs, generators[caller].project, k, caller)
           /\ generators' =
                [generators EXCEPT ![caller] =
                   [@ EXCEPT !.written = k,
                             !.touched = @ \cup (DOMAIN fs' \ DOMAIN fs)
                                           \cup {GeneratedPath(generators[caller].project, k)},
                             !.pc = IF k = Len(GeneratedFiles) THEN "returned" ELSE "write"]]
    /\ UNCHANGED generateFrame

NextGenerate ==
    \E caller \in Callers :
        \/ GenerateBegin(caller)
        \/ GenerateCheckExists(caller)
        \/ GenerateMakeDirs(caller)
        \/ GenerateWrite(caller)

SpecGenerate == InitGenerate /\ [][NextGenerate]_vars

\* ------------------------------------------------------ generation claims
\* The caller's call began after the other caller's call had ended.
CalledAfter(later, earlier) == earlier \in generators[later].after
PastCheck(caller) == generators[caller].pc \notin {"call", "exists"}

\* C4: a generate_project call that finds its target directory
\* "{slug}-service" existing raises FileExistsError and creates or writes
\* no path, so the tree that was there stays as it was; and of two calls
\* for the same target made one after the other, the second raises, and
\* the first returns when the directory was not there before it.
C4_ExistingProjectRejected ==
    /\ \A caller \in Callers :
         (PastCheck(caller) /\ generators[caller].existed) =>
            /\ generators[caller].pc = "raised"
            /\ generators[caller].error = "FileExistsError"
            /\ generators[caller].touched = {}
            /\ generators[caller].written = 0
    /\ (\A caller \in Callers : generators[caller].touched = {}) =>
         /\ \A path \in DOMAIN fs0 : path \in DOMAIN fs /\ fs[path] = fs0[path]
         /\ DOMAIN fs = DOMAIN fs0
    /\ \A earlier, later \in Callers :
         (/\ CalledAfter(later, earlier)
          /\ generators[later].project = generators[earlier].project
          /\ PastCheck(later)) =>
            /\ generators[later].pc = "raised"
            /\ generators[later].error = "FileExistsError"
            /\ generators[later].touched = {}
            /\ <<generators[earlier].project, "", "">> \notin DOMAIN fs0 =>
                 /\ generators[earlier].pc = "returned"
                 /\ \A k \in DOMAIN GeneratedFiles :
                      fs[GeneratedPath(generators[earlier].project, k)] = <<earlier>>

\* The second of two calls for one target, made after the first returned,
\* has raised.
C4_Witness ==
    /\ CalledAfter("second", "first")
    /\ generators["first"].pc = "returned"
    /\ generators["second"].project = generators["first"].project
    /\ generators["second"].pc = "raised"
    /\ generators["second"].existed

\* C16: generate_project refuses only a project directory that exists when
\* it checks: a call that found none goes on and never raises, whatever
\* another call creates meanwhile, so two interleaved calls for one target
\* can both return, their files written into the same directory.
C16_GuardOnlyAtCheck ==
    /\ \A caller \in Callers :
         PastCheck(caller) =>
           (generators[caller].pc = "raised" <=> generators[caller].existed)
    /\ \A caller \in Callers :
         (PastCheck(caller) /\ ~generators[caller].existed) =>
           /\ generators[caller].error = ""
           /\ generators[caller].pc = "returned" =>
                \A k \in DOMAIN GeneratedFiles :
                  /\ GeneratedPath(generators[caller].project, k) \in DOMAIN fs
                  /\ fs[GeneratedPath(generators[caller].project, k)] \in
                       {<<writer>> : writer \in
                          {other \in Callers :
                             generators[other].project = generators[caller].project}}

\* Both calls for one target passed the check, both returned, and the
\* project directory holds files written by each of them.
C16_Witness ==
    /\ generators["first"].project = generators["second"].project
    /\ \A caller \in Callers :
         /\ generators[caller].pc = "returned"
         /\ ~generators[caller].existed
         /\ generators[caller].error = ""
         /\ \E k \in DOMAIN GeneratedFiles :
              fs[GeneratedPath(generators[caller].project, k)] = <<caller>>

\* ------------------------------------------------------ the deployer model
\* deploy called on a project directory whose k8s directory holds any
\* choice of manifests and other files, or is missing.
ManifestDirFiles == Range(YamlNames) \cup {"notes.txt"}

ProjectTree(names) ==
    [path \in {OutputDir, <<OldProject, "", "">>, <<OldProject, "k8s", "">>}
              \cup {<<OldProject, "k8s", name>> : name \in names} |->
       IF path[3] = "" THEN DirContent ELSE <<"old">>]

InitDeploy ==
    /\ fs0 \in {ProjectTree(names) : names \in SUBSET ManifestDirFiles}
                 \cup {write_text(<<>>, <<OldProject, "", "README.md">>, <<"old">>)}
    /\ fs = fs0
    /\ project_path = <<OldProject>>
    /\ namespace \in {"", "prod"}
    /\ kubectl \in {"none", "found", "missing"}
    /\ pc = "deploy"
    /\ calls = <<"deploy">>
    /\ requirements = BaseRequirements
    /\ template_name = SimplePythonService
    /\ run_tests = FALSE
    /\ deploy = TRUE
    /\ python_found = TRUE
    /\ template = <<>>
    /\ validated_requirements = <<>>
    /\ test_result = <<>>
    /\ deployment_result = <<>>
    /\ result = <<>>
    /\ results_built = 0
    /\ error = ""
    /\ manifest_files = <<>>
    /\ executed_commands = <<>>
    /\ kubectl_log = <<>>
    /\ generators = NoGenerators
    /\ ValidationIdle
    /\ SlugifyIdle
    /\ ManagerIdle

NextDeploy == DeployDiscover \/ ApplyManifest

SpecDeploy == InitDeploy /\ [][NextDeploy]_vars

\* ------------------------------------------------------- deployer claims
\* The *.yaml files of the project's k8s directory before the call.
ManifestsPresent == {name \in Range(YamlNames) : <<project_path[1], "k8s", name>> \in DOMAIN fs0}
\* Position of a name in filename order.
NameRank(name) == CHOOSE k \in DOMAIN YamlNames : YamlNames[k] = name
LoggedManifest(i) == kubectl_log[i].command[4]
LoggedCommands == [i \in DOMAIN kubectl_log |-> kubectl_log[i].command]

\* C6: with manifests and a kubectl, the commands the host runs are kubectl
\* apply of manifests of the directory, in filename order, each at most
\* once; only the last command run can have failed (nothing runs after a
\* non-zero exit, no retry, no rollback); deploy returns applied=false
\* exactly when that last one failed and applied=true exactly when every
\* manifest was applied with exit code zero, and its command_sequence is
\* the commands run, the failing one included.
C6_ApplyInOrderStopAtFailure ==
    /\ \A i \in DOMAIN kubectl_log :
         /\ LoggedManifest(i) \in ManifestsPresent
         /\ kubectl_log[i].command = ApplyCommand(LoggedManifest(i), namespace)
         /\ i < Len(kubectl_log) => kubectl_log[i].returncode = 0
    /\ \A i, j \in DOMAIN kubectl_log :
         i < j => NameRank(LoggedManifest(i)) < NameRank(LoggedManifest(j))
    /\ \A i \in DOMAIN kubectl_log :
         \A name \in ManifestsPresent :
           NameRank(name) < NameRank(LoggedManifest(i)) =>
             \E j \in 1..(i - 1) : LoggedManifest(j) = name
    /\ (pc = "deployed" /\ kubectl_log /= <<>>) =>
         /\ deployment_result[1].command_sequence = LoggedCommands
         /\ deployment_result[1].applied <=>
              /\ Len(kubectl_log) = Cardinality(ManifestsPresent)
              /\ \A i \in DOMAIN kubectl_log : kubectl_log[i].returncode = 0
         /\ ~deployment_result[1].applied <=>
              kubectl_log[Len(kubectl_log)].returncode /= 0
    /\ (pc = "deployed" /\ deployment_result[1].applied) =>
         /\ Len(deployment_result[1].command_sequence) = Cardinality(ManifestsPresent)
         /\ kubectl_log /= <<>>

\* deploy returned after the second of three manifests failed.
C6_Witness ==
    /\ pc = "deployed"
    /\ Cardinality(ManifestsPresent) = 3
    /\ Len(kubectl_log) = 2
    /\ kubectl_log[2].returncode /= 0
    /\ ~deployment_result[1].applied

\* No kubectl path given and none on PATH.
NoCliResolvable == kubectl = "none"

\* C7: when no manifest is found or no kubectl is resolvable, no command is
\* run and deploy returns applied=false with an empty command_sequence;
\* with manifests and no kubectl the file k8s/deployment-plan.txt is written,
\* listing every manifest, and nothing else changes; with no manifest
\* nothing is written.
C7_NoCommandsWithoutManifestsOrCli ==
    (ManifestsPresent = {} \/ NoCliResolvable) =>
        /\ kubectl_log = <<>>
        /\ executed_commands = <<>>
        /\ pc \notin {"apply", "raised"}
        /\ pc = "deployed" =>
             /\ ~deployment_result[1].applied
             /\ deployment_result[1].command_sequence = <<>>
             /\ ManifestsPresent = {} => fs = fs0
             /\ ManifestsPresent /= {} =>
                  /\ DOMAIN fs = DOMAIN fs0 \cup {<<project_path[1], "k8s", PlanFile>>}
                  /\ \A path \in DOMAIN fs0 : fs[path] = fs0[path]
                  /\ \A name \in ManifestsPresent :
                       \E i \in DOMAIN fs[<<project_path[1], "k8s", PlanFile>>] :
                         fs[<<project_path[1], "k8s", PlanFile>>][i] = name

\* deploy returned without kubectl, leaving a plan for two manifests.
C7_Witness ==
    /\ pc = "deployed"
    /\ NoCliResolvable
    /\ Cardinality(ManifestsPresent) = 2
    /\ <<project_path[1], "k8s", PlanFile>> \in DOMAIN fs
    /\ ~deployment_result[1].applied

\* ------------------------------------------------------------------ claims
RoutesOf(spec) == [i \in DOMAIN spec["routes"] |-> spec["routes"][i].f]

\* C5: validation is idempotent: validating an accepted mapping's normalized
\* form succeeds and yields the same mapping, key by key (service_name,
\* description, version, container_image, slug, port, and the ordered route
\* list with name, identifier, method, path, status and response).
C5_ValidationIdempotent ==
    vpc = "revalidated" =>
        /\ revalidated.ok
        /\ DOMAIN revalidated.val = DOMAIN validated.val
        /\ \A key \in NormalizedKeys \ {"routes"} :
             revalidated.val[key] = validated.val[key]
        /\ Len(revalidated.val["routes"]) = Len(validated.val["routes"])
        /\ \A i \in DOMAIN validated.val["routes"] :
             \A field \in {"name", "identifier", "method", "path", "status", "response"} :
               RoutesOf(revalidated.val)[i][field] = RoutesOf(validated.val)[i][field]

\* A revalidated mapping whose first validation changed something: two
\* declared routes, one with a lower-case method or a textual status.
C5_Witness ==
    /\ vpc = "revalidated"
    /\ "routes" \in DOMAIN requirements
    /\ Len(requirements["routes"]) = 2
    /\ \E i \in 1..2 :
         /\ "status" \in DOMAIN requirements["routes"][i].f
         /\ requirements["routes"][i].f["status"].t = "str"
         /\ RoutesOf(validated.val)[i]["status"] = PyInt(404)

\* C10: the generated server of an accepted mapping answers a request for a
\* declared route's (method, path) with that route's status and response,
\* and a request for a pair no route declares with 404.
C10_DeclaredRoutesServed ==
    /\ vpc /= "import_failed"
    /\ (vpc = "serving" /\ request /= <<>>) =>
         LET ROUTES == RoutesOf(validated.val)
             declared == {i \in DOMAIN ROUTES : RouteKey(ROUTES[i]) = request}
         IN  IF declared = {} THEN reply.status = 404
             ELSE \A i \in declared :
                    reply = Reply(ROUTES[i]["status"].n, ROUTES[i]["response"])

\* The position of the last route of a list that has the (method, path) key.
LastWith(ROUTES, key) ==
    CHOOSE i \in DOMAIN ROUTES :
        /\ RouteKey(ROUTES[i]) = key
        /\ \A j \in DOMAIN ROUTES : RouteKey(ROUTES[j]) = key => j <= i
DeclaredKeys(ROUTES) == {RouteKey(ROUTES[i]) : i \in DOMAIN ROUTES}
DeclaredRoutes == Get(requirements, "routes", <<>>)

\* C11: validation keeps every declared route, in order, also when several
\* share one (method, path); the route map of the running server holds for
\* each declared (method, path) the last route declared with it, and a
\* request for that pair is answered with that last route's status and
\* response.
C11_LastRouteWins ==
    /\ (vpc \notin {"input", "rejected"} /\ DeclaredRoutes /= <<>>) =>
         /\ Len(validated.val["routes"]) = Len(DeclaredRoutes)
         /\ \A i \in DOMAIN DeclaredRoutes :
              /\ RoutesOf(validated.val)[i]["path"].s = Str(DeclaredRoutes[i].f["path"])
              /\ RoutesOf(validated.val)[i]["method"].s =
                   Upper(Str(Get(DeclaredRoutes[i].f, "method", PyStr(Chars("GET")))))
    /\ vpc = "serving" =>
         /\ server.val = RoutesOf(validated.val)
         /\ \A key \in DeclaredKeys(server.val) :
              get_route_map(server.val, key) = <<server.val[LastWith(server.val, key)]>>
         /\ (request /= <<>> /\ <<request[1], UrlPath(request[2])>> \in DeclaredKeys(server.val)) =>
              LET last == server.val[LastWith(server.val, <<request[1], UrlPath(request[2])>>)]
              IN  reply = Reply(last["status"].n, last["response"])

\* Two declared routes with one (method, path) and different statuses, and
\* a request for the pair answered with the second one's status.
C11_Witness ==
    /\ vpc = "serving"
    /\ Len(DeclaredRoutes) = 2
    /\ RouteKey(server.val[1]) = RouteKey(server.val[2])
    /\ server.val[1]["status"] /= server.val[2]["status"]
    /\ request = RouteKey(server.val[2])
    /\ reply.status = server.val[2]["status"].n

\* The failure conditions the interface lists, read off the raw mapping.
FieldAbsent == \E field \in {"service_name", "description"} : field \notin DOMAIN requirements
ListedMethods == {<<"G", "E", "T">>, <<"P", "O", "S", "T">>, <<"P", "U", "T">>,
                  <<"D", "E", "L", "E", "T", "E">>}
DeclaredMethod(route) == Upper(Str(Get(route.f, "method", PyStr(<<"G", "E", "T">>))))
MethodUnsupported(route) == route.ismap /\ DeclaredMethod(route) \notin ListedMethods
PathMissing(route) ==
    /\ route.ismap
    /\ \/ "path" \notin DOMAIN route.f
       \/ ~Truthy(route.f["path"])
       \/ Head(Str(route.f["path"])) /= "/"
RouteMalformed(route) == ~route.ismap \/ MethodUnsupported(route) \/ PathMissing(route)
ListedFailure ==
    FieldAbsent \/ \E i \in DOMAIN DeclaredRoutes : RouteMalformed(DeclaredRoutes[i])

\* A value int() does not convert: text that is no decimal number, None, a dict.
NotANumber(v) ==
    ~ \/ v.t = "int"
      \/ v.t = "str" /\ v.s /= <<>> /\ \A i \in DOMAIN v.s : v.s[i] \in Range(Digits)
NumberFailure ==
    \/ \E i \in DOMAIN DeclaredRoutes :
         /\ DeclaredRoutes[i].ismap
         /\ "status" \in DOMAIN DeclaredRoutes[i].f
         /\ NotANumber(DeclaredRoutes[i].f["status"])
    \/ "port" \in DOMAIN requirements /\ NotANumber(requirements["port"])

Validated == vpc \notin {"idle", "input"}
FirstUnsupported ==
    \E i \in DOMAIN DeclaredRoutes :
        /\ MethodUnsupported(DeclaredRoutes[i])
        /\ \A j \in 1..(i - 1) :
             ~RouteMalformed(DeclaredRoutes[j])
             /\ ~("status" \in DOMAIN DeclaredRoutes[j].f
                  /\ NotANumber(DeclaredRoutes[j].f["status"]))
EnumeratesAllowed(message) ==
    \A method \in ListedMethods : \E i \in DOMAIN message : message[i] = method

GivenName(route) == Get(route.f, "name", PyNone)
\* The slug of a name before any fallback: lower-cased, runs of other
\* characters turned into "-", "-" trimmed from both ends.
BareSlug(chars) == Strip(SubNonSlug(Lower(Strip(chars, Whitespace))), {"-"})

\* C15: the route at 1-based position i of a declared list gets as name the
\* given name, or "route_{i}" when none (or an empty one) is given, and as
\* identifier the slug of the name with "-" replaced by "_", or "route_{i}"
\* when that slug is empty, as for a name made only of symbols.
C15_IdentifierFallback ==
    (vpc \notin {"idle", "input", "rejected"} /\ DeclaredRoutes /= <<>>) =>
        \A i \in DOMAIN DeclaredRoutes :
            LET name == IF Truthy(GivenName(DeclaredRoutes[i]))
                        THEN Str(GivenName(DeclaredRoutes[i]))
                        ELSE <<"r", "o", "u", "t", "e", "_">> \o IntToChars(i)
            IN  /\ RoutesOf(validated.val)[i]["name"].s = name
                /\ RoutesOf(validated.val)[i]["identifier"].s =
                     IF BareSlug(name) = <<>>
                     THEN <<"r", "o", "u", "t", "e", "_">> \o IntToChars(i)
                     ELSE ReplaceDash(BareSlug(name))

\* ----------------------------------------------------- pipeline claims
Invoked(component) == \E i \in DOMAIN calls : calls[i] = component
LastCall == IF calls = <<>> THEN "" ELSE calls[Len(calls)]
GateDecided == pc \in {"deploy", "apply", "deployed", "return", "returned"}
                \/ (pc = "raised" /\ Invoked("deploy"))
TestsPassed == test_result /= <<>> /\ test_result[1].passed

\* C1: once a run has reached the deploy decision, the deployer has been
\* invoked if and only if deploy is true and (run_tests is false or the test
\* outcome passed), and the returned result carries a deployment_result
\* under the same condition; before the decision the deployer is never
\* called, and a failed test outcome leaves deployment_result unset and
\* kubectl untouched whatever the deploy flag.
C1_DeployGate ==
    /\ ~GateDecided => ~Invoked("deploy")
    /\ GateDecided => (Invoked("deploy") <=> (deploy /\ (~run_tests \/ TestsPassed)))
    /\ pc = "returned" =>
         (result[1].deployment_result /= <<>> <=> (deploy /\ (~run_tests \/ TestsPassed)))
    /\ (run_tests /\ test_result /= <<>> /\ ~test_result[1].passed) =>
         /\ deployment_result = <<>>
         /\ ~Invoked("deploy")
         /\ kubectl_log = <<>>

\* A finished run asked to deploy whose tests failed.
C1_Witness ==
    /\ pc = "returned"
    /\ deploy
    /\ run_tests
    /\ ~test_result[1].passed
    /\ result[1].deployment_result = <<>>

ValidationErrorRaised == pc = "raised" /\ error = "ValueError" /\ LastCall = "validate_requirements"

\* C2 as stated: when run_pipeline aborts with a ValidationError, the
\* filesystem, the existence of output_dir included, is as it was before the
\* call.
C2_NoFilesystemWrite == ValidationErrorRaised => fs = fs0

\* C2 as amended: when run_pipeline aborts with a ValidationError, every path
\* that existed before the call is unchanged and the only path the run may
\* have created is output_dir itself, which now exists.
C2_OnlyOutputDirCreated ==
    ValidationErrorRaised =>
        /\ \A path \in DOMAIN fs0 : path \in DOMAIN fs /\ fs[path] = fs0[path]
        /\ DOMAIN fs \ DOMAIN fs0 \subseteq {OutputDir}
        /\ OutputDir \in DOMAIN fs

\* A validation failure of a run whose output directory held an earlier
\* project.
C2_Witness ==
    /\ ValidationErrorRaised
    /\ DOMAIN fs0 /= {}
    /\ <<OldProject, "k8s", "extra.yaml">> \in DOMAIN fs

PipelineOrder == <<"get_template", "validate_requirements", "generate_project", "run", "deploy">>
OrderRank(component) == CHOOSE k \in DOMAIN PipelineOrder : PipelineOrder[k] = component
ProjectGenerated ==
    /\ project_path /= <<>>
    /\ \A k \in DOMAIN GeneratedFiles : GeneratedPath(project_path[1], k) \in DOMAIN fs

\* C3: the components are invoked in the order resolve, validate, generate,
\* test, deploy, each at most once and none before the one before it has
\* finished: tests run only on a generated project, the deployer only after
\* generation and (when tests run) after the test outcome exists.  A step
\* that raises is the last: an unknown template name is never validated, and
\* after a failed resolution, validation or generation neither the test
\* runner nor the deployer (nor kubectl) is invoked.
C3_StrictOrder ==
    /\ \A i, j \in DOMAIN calls : i < j => OrderRank(calls[i]) < OrderRank(calls[j])
    /\ \A k \in 1..3 : Len(calls) >= k => calls[k] = PipelineOrder[k]
    /\ Invoked("validate_requirements") => template /= <<>>
    /\ Invoked("generate_project") => validated_requirements /= <<>>
    /\ Invoked("run") => ProjectGenerated
    /\ Invoked("deploy") => ProjectGenerated /\ (run_tests => test_result /= <<>>)
    /\ kubectl_log /= <<>> => Invoked("deploy")
    /\ template_name \notin TEMPLATE_REGISTRY => ~Invoked("validate_requirements")
    /\ pc = "raised" =>
         /\ result = <<>>
         /\ error = "KeyError" => calls = <<"get_template">>
         /\ LastCall \in {"get_template", "validate_requirements", "generate_project"} =>
              /\ ~Invoked("run")
              /\ ~Invoked("deploy")
              /\ test_result = <<>>
              /\ deployment_result = <<>>
              /\ kubectl_log = <<>>
         /\ LastCall = "run" => ~Invoked("deploy") /\ kubectl_log = <<>>

\* A run of an unknown template that stopped at the lookup, its requirements
\* being ones validation would reject.
C3_Witness ==
    /\ pc = "raised"
    /\ error = "KeyError"
    /\ template_name = "unknown"
    /\ "description" \notin DOMAIN requirements

\* C8: TestRunner.run never raises: whenever it has been called there is a
\* test outcome, passed exactly when the exit code is zero, and the pipeline
\* is on its way to the deploy decision instead of having aborted.
C8_TestRunnerNeverRaises ==
    Invoked("run") =>
        /\ ~(pc = "raised" /\ LastCall = "run")
        /\ test_result /= <<>>
        /\ test_result[1].passed <=> (test_result[1].return_code = 0)

\* C9: a run raises without constructing a PipelineResult or returns exactly
\* one, never changed afterwards; a result is returned whenever resolution,
\* validation and generation succeeded; its test_result is set exactly when
\* run_tests was true and its requirements are the normalized ones.
C9_ResultOrRaise ==
    /\ results_built <= 1
    /\ (result /= <<>>) <=> (results_built = 1)
    /\ (result /= <<>>) <=> (pc = "returned")
    /\ pc = "raised" => results_built = 0
    /\ (pc \in {"raised", "returned"} /\ project_path /= <<>>) => pc = "returned"
    /\ pc = "returned" =>
         /\ (result[1].test_result /= <<>>) <=> run_tests
         /\ result[1].requirements = validate_requirements(requirements).val
         /\ result[1].test_result = test_result
         /\ result[1].deployment_result = deployment_result

====
